---------------------------- MODULE Spec2Model ----------------------------
(***************************************************************************)
(* The user registry of the example MCP server (src/unnamed/part_000, and  *)
(* its earlier revision src/src/server.ts): the tools create-user and      *)
(* create-random-user, the resources Users and user-details, the helper    *)
(* createUser, the JSON module ./data/users.json they import and the file  *)
(* ./src/data/users.json createUser writes.                                *)
(*                                                                         *)
(* Every handler is an async function: it runs without interruption from   *)
(* one await to the next, and other handlers run at its awaits.  One       *)
(* action of the model is one such run.                                    *)
(*                                                                         *)
(* import("./data/users.json") is a module import: the module is read and  *)
(* parsed from the file the first time an import of it completes, and      *)
(* every import, then and later, yields the same module, whose default     *)
(* export is one and the same array object.  loaded and users are that     *)
(* module; file is the text   of the backing file, which the import path   *)
(* and the path of fs.writeFile both name.                                 *)
(*                                                                         *)
(* A text is a sequence of tokens.  fs.writeFile opens the file with       *)
(* truncation and then writes the data from offset 0; two writes of the    *)
(* same file that overlap in time may interleave these steps.              *)
(***************************************************************************)
EXTENDS Integers, Sequences, FiniteSets, TLC

\* Number of handler invocations in a run.
MaxCalls == 2

Calls == 1..MaxCalls

-----------------------------------------------------------------------------
(* JavaScript values *)

Undefined == [t |-> "undefined"]
Null == [t |-> "null"]

\* Objects are functions from keys to values.
EmptyObject == [k \in {} |-> 0]

Ana == [name |-> "Ana", email |-> "ana@x.com", address |-> "1 Rd", phone |-> "555"]
Bo == [name |-> "Bo", email |-> "bo@x.com", address |-> "2 Rd", phone |-> "555"]

\* The keys of the create-user input shape.
UserKeys == {"name", "email", "address", "phone"}

\* Parameter objects that pass the create-user input schema.
ValidParams == {Ana, Bo}

\* { id, ...params }: the keys of params are copied after id, so a key id of
\* params replaces the computed one.
NewUser(id, params) ==
    [k \in {"id"} \cup DOMAIN params |->
        IF k \in DOMAIN params THEN params[k] ELSE id]

-----------------------------------------------------------------------------
(* Texts: JSON.stringify, JSON.parse, the fence stripping *)

LB == [tok |-> "["]
RB == [tok |-> "]"]
WS == [tok |-> "ws"]
\* The three backticks that open or close a Markdown code fence, and the
\* opening ones followed by json.
FenceJson == [tok |-> "fence-json"]
Fence == [tok |-> "fence"]
Junk == [tok |-> "junk"]
Obj(o) == [tok |-> "object", val |-> o]

IsObj(tk) == tk.tok = "object"

RECURSIVE Items(_, _)
\* The elements of an array, each preceded by the separator sep.
Items(arr, sep) ==
    IF arr = <<>> THEN <<>>
    ELSE sep \o <<Obj(Head(arr))>> \o Items(Tail(arr), sep)

\* JSON.stringify(arr): the compact text of an array of objects.
StringifyArray(arr) == <<LB>> \o Items(arr, <<>>) \o <<RB>>

\* JSON.stringify(arr, null, 2): each element on a line of its own; [] for
\* the empty array.
StringifyPretty(arr) ==
    IF arr = <<>> THEN <<LB, RB>>
    ELSE <<LB>> \o Items(arr, <<WS>>) \o <<WS, RB>>

\* JSON.stringify(v) of one value: undefined for undefined (not a string).
StringifyValue(v) ==
    IF v = Undefined THEN Undefined
    ELSE [t |-> "string", s |-> <<Obj(v)>>]

RECURSIVE DropWs(_)
DropWs(s) ==
    IF s = <<>> THEN <<>>
    ELSE IF Head(s) = WS THEN DropWs(Tail(s))
    ELSE <<Head(s)>> \o DropWs(Tail(s))

SyntaxError == [ok |-> FALSE]

\* JSON.parse(text): white space between tokens is skipped; the text must
\* be exactly one value.
ParseJSON(text) ==
    LET s == DropWs(text) IN
    IF Len(s) = 1 /\ IsObj(s[1])
    THEN [ok |-> TRUE, kind |-> "object", obj |-> s[1].val]
    ELSE IF /\ Len(s) >= 2
            /\ s[1] = LB
            /\ s[Len(s)] = RB
            /\ \A i \in 2..(Len(s) - 1) : IsObj(s[i])
    THEN [ok |-> TRUE, kind |-> "array",
          arr |-> [i \in 1..(Len(s) - 2) |-> s[i + 1].val]]
    ELSE SyntaxError

RECURSIVE TrimStart(_)
TrimStart(s) == IF s # <<>> /\ Head(s) = WS THEN TrimStart(Tail(s)) ELSE s

RECURSIVE TrimEnd(_)
TrimEnd(s) ==
    IF s # <<>> /\ s[Len(s)] = WS THEN TrimEnd(SubSeq(s, 1, Len(s) - 1)) ELSE s

\* String.prototype.trim
Trim(s) == TrimEnd(TrimStart(s))

\* Variant of StripOpeningFence for sensitivity runs: a pattern that never
\* matches the opening fence.
StripOpeningFenceNever(s) == s

\* .replace(/^FENCEjson/, ""), FENCE being three backticks
StripOpeningFence(s) == IF s # <<>> /\ Head(s) = FenceJson THEN Tail(s) ELSE s

\* .replace(/FENCE$/, "")
StripClosingFence(s) ==
    IF s # <<>> /\ s[Len(s)] = Fence THEN SubSeq(s, 1, Len(s) - 1) ELSE s

\* res.content.text.trim().replace(/^FENCEjson/, "").replace(/FENCE$/, "").trim()
StripFence(text) == Trim(StripClosingFence(StripOpeningFence(Trim(text))))


-----------------------------------------------------------------------------
(* Numbers and lookups *)

\* Number("abc"): not a number, equal to nothing, itself included.
NaN == -1

\* The userId variable of the URI users://{userId}/details is a string.
UserIdStrings == {"1", "2", "abc"}

\* Number(userId)
Number(str) ==
    CASE str = "1" -> 1
      [] str = "2" -> 2
      [] OTHER -> NaN

\* a === b on numbers
StrictEquals(a, b) == a # NaN /\ b # NaN /\ a = b

\* users.find((u) => u.id === n): the first match, undefined when none.
Find(arr, n) ==
    LET hits == {i \in 1..Len(arr) : StrictEquals(arr[i].id, n)} IN
    IF hits = {} THEN Undefined
    ELSE arr[CHOOSE i \in hits : \A j \in hits : i <= j]

-----------------------------------------------------------------------------
(* Responses *)

NoResult == [kind |-> "none", msg |-> "", id |-> 0, text |-> Undefined]

\* { content: [{ type: "text", text: "User <id> created successfully" }] }
Created(id) ==
    [kind |-> "content", msg |-> "created successfully", id |-> id,
     text |-> Undefined]

\* { content: [{ type: "text", text: msg }] }
Failed(msg) == [kind |-> "content", msg |-> msg, id |-> 0, text |-> Undefined]

\* { contents: [{ uri, type: "application/json", text }] }
Contents(text) == [kind |-> "contents", msg |-> "", id |-> 0, text |-> text]

\* The promise of the handler is rejected: the exception left the handler.
Rejected == [kind |-> "rejected", msg |-> "", id |-> 0, text |-> Undefined]

\* JSON.stringify({ error: "User not found" })
NotFoundText == [t |-> "string", s |-> <<Obj([error |-> "User not found"])>>]

\* What a handler answers when the import of the users module or the write
\* of the file throws inside it: the catch clause of the tool, and nothing
\* in a resource handler, which has no try.
OnStoreException(tool) ==
    CASE tool = "create-user" -> Failed("Failed to save user")
      [] tool = "create-random-user" -> Failed("Failed to generate user data")
      [] OTHER -> Rejected

-----------------------------------------------------------------------------
(* The generation collaborator *)

BoWithId == [id |-> 2, name |-> "Bo", email |-> "bo@x.com",
             address |-> "2 Rd", phone |-> "555"]
OnlyName == [name |-> "Bo"]

\* Results of sampling/createMessage: content that is not text, and texts.
Generated ==
    { [type |-> "image", text |-> <<>>],
      [type |-> "text", text |-> <<Obj(Bo)>>],
      [type |-> "text", text |-> <<FenceJson, WS, Obj(Bo), WS, Fence, WS>>],
      [type |-> "text", text |-> <<Fence, WS, Obj(Bo), WS, Fence>>],
      [type |-> "text", text |-> <<Junk>>],
      [type |-> "text", text |-> <<Obj(BoWithId)>>],
      [type |-> "text", text |-> <<Obj(OnlyName)>>] }

NoGen == [type |-> "none", text |-> <<>>]

-----------------------------------------------------------------------------
(* State *)

VARIABLES
    file,      \* the text of ./src/data/users.json
    loaded,    \* whether the users module has been loaded
    users,     \* the default export of the users module, once loaded
    pc,        \* where each invocation is
    req,       \* each invocation: its tool or resource and its arguments
    id,        \* the id of createUser
    data,      \* the text createUser hands to fs.writeFile
    result,    \* what each invocation answered
    file0      \* history: the file at the start

vars == <<file, loaded, users, pc, req, id, data, result, file0>>

NoReq == [tool |-> "none", params |-> EmptyObject, userId |-> "", gen |-> NoGen]

\* The record the server ships with, as createUser would have stored it.
FirstUser == NewUser(1, Ana)

\* The backing file at the start: an array the program wrote, or a text
\* that is no JSON.
InitialFiles ==
    { StringifyPretty(<<>>), StringifyPretty(<<FirstUser>>), <<LB, WS>> }

Init ==
    /\ file \in InitialFiles
    /\ loaded = FALSE
    /\ users = <<>>
    /\ pc = [c \in Calls |-> "idle"]
    /\ req = [c \in Calls |-> NoReq]
    /\ id = [c \in Calls |-> 0]
    /\ data = [c \in Calls |-> <<>>]
    /\ result = [c \in Calls |-> NoResult]
    /\ file0 = file

-----------------------------------------------------------------------------
(* The users module and the backing file *)

\* import("./data/users.json") fulfils: the module is loaded already, or
\* the file parses now.
ImportFulfils == loaded \/ ParseJSON(file).ok

\* Variant of Imported for sensitivity runs: every import reads the file
\* again, as a module system without a cache would.
ImportedFresh == IF ParseJSON(file).ok THEN ParseJSON(file).arr ELSE users

\* mod.default: the array of the loaded module; on the first import, the
\* array parsed from the file.
Imported == IF loaded THEN users ELSE ParseJSON(file).arr

\* The write of fs.writeFile, after the open truncated the file: the data
\* from offset 0, over what another write may have put there meanwhile.
Overwrite(old, new) == new \o SubSeq(old, Len(new) + 1, Len(old))

-----------------------------------------------------------------------------
(* Invocations *)

\* Invocations are numbered in the order they arrive.
NextCall(c) == pc[c] = "idle" /\ \A d \in Calls : d < c => pc[d] # "idle"

\* An invocation arrives and runs to its first await.
Arrive(c, r, at) ==
    /\ pc' = [pc EXCEPT ![c] = at]
    /\ req' = [req EXCEPT ![c] = r]
    /\ UNCHANGED <<file, loaded, users, id, data, result, file0>>

\* create-user is called with parameters that passed its schema; the
\* handler calls createUser, which awaits the import.
CallCreateUser(c, params) ==
    /\ NextCall(c)
    /\ Arrive(c, [NoReq EXCEPT !.tool = "create-user", !.params = params],
              "import")

\* create-random-user is called; the handler awaits server.server.request.
CallCreateRandomUser(c) ==
    /\ NextCall(c)
    /\ Arrive(c, [NoReq EXCEPT !.tool = "create-random-user"], "request")

\* The Users resource is read; the handler awaits the import.
ReadUsers(c) ==
    /\ NextCall(c)
    /\ Arrive(c, [NoReq EXCEPT !.tool = "Users"], "import")

\* The user-details resource is read; the handler awaits the import.
ReadUserDetails(c, userId) ==
    /\ NextCall(c)
    /\ Arrive(c, [NoReq EXCEPT !.tool = "user-details", !.userId = userId],
              "import")

\* The answer a finished step gives, and the end of the invocation.
Answer(c, r) ==
    /\ pc' = [pc EXCEPT ![c] = "done"]
    /\ result' = [result EXCEPT ![c] = r]

\* Whether create-random-user goes on to createUser with the result res of
\* the request: its content is text, and the stripped text parses.
Accepts(res) == res.type = "text" /\ ParseJSON(StripFence(res.text)).ok

\* fakeUser
FakeUser(res) == ParseJSON(StripFence(res.text)).obj

\* create-random-user, from the result of the request to its next await:
\* content that is not text is refused; the text is stripped and parsed,
\* a parse error is caught; the parsed value goes to createUser as it is.
SamplingResult(c, res) ==
    /\ pc[c] = "request"
    /\ IF Accepts(res)
       THEN /\ pc' = [pc EXCEPT ![c] = "import"]
            /\ req' = [req EXCEPT ![c].gen = res, ![c].params = FakeUser(res)]
            /\ UNCHANGED result
       ELSE /\ Answer(c, Failed("Failed to generate user data"))
            /\ req' = [req EXCEPT ![c].gen = res]
    /\ UNCHANGED <<file, loaded, users, id, data, file0>>

\* The import is rejected (the file is no JSON): createUser throws to the
\* catch of its tool; a resource handler throws to its caller.
ImportFails(c) ==
    /\ pc[c] = "import"
    /\ ~ImportFulfils
    /\ Answer(c, OnStoreException(req[c].tool))
    /\ UNCHANGED <<file, loaded, users, req, id, data, file0>>

\* Variant of NewId for sensitivity runs: the id without the + 1.
NewIdZeroBased(arr) == Len(arr)

\* const id = users.length + 1
NewId(arr) == Len(arr) + 1

\* createUser, from the import to the await of fs.writeFile: the id from
\* the length of the array, the push onto the array of the module, the
\* text of the whole array, and the call of fs.writeFile.
CreateUserAppend(c) ==
    /\ pc[c] = "import"
    /\ req[c].tool \in {"create-user", "create-random-user"}
    /\ ImportFulfils
    /\ LET pushed == Append(Imported, NewUser(NewId(Imported), req[c].params))
       IN /\ loaded' = TRUE
          /\ users' = pushed
          /\ id' = [id EXCEPT ![c] = NewId(Imported)]
          /\ data' = [data EXCEPT ![c] = StringifyPretty(pushed)]
    /\ pc' = [pc EXCEPT ![c] = "open"]
    /\ UNCHANGED <<file, req, result, file0>>

\* The Users resource, from the import to its return.
UsersRead(c) ==
    /\ pc[c] = "import"
    /\ req[c].tool = "Users"
    /\ ImportFulfils
    /\ loaded' = TRUE
    /\ users' = Imported
    /\ Answer(c, Contents([t |-> "string", s |-> StringifyArray(Imported)]))
    /\ UNCHANGED <<file, req, id, data, file0>>

\* if (user === null) in the user-details handler
IsMissing(user) == user = Null

\* What the user-details handler returns for the records arr and userId.
UserDetails(arr, userId) ==
    LET user == Find(arr, Number(userId)) IN
    IF IsMissing(user) THEN Contents(NotFoundText)
    ELSE Contents(StringifyValue(user))

\* The user-details resource, from the import to its return.
UserDetailsRead(c) ==
    /\ pc[c] = "import"
    /\ req[c].tool = "user-details"
    /\ ImportFulfils
    /\ loaded' = TRUE
    /\ users' = Imported
    /\ Answer(c, UserDetails(Imported, req[c].userId))
    /\ UNCHANGED <<file, req, id, data, file0>>

\* fs.writeFile opens the file for writing, which truncates it.
WriteOpen(c) ==
    /\ pc[c] = "open"
    /\ file' = <<>>
    /\ pc' = [pc EXCEPT ![c] = "write"]
    /\ UNCHANGED <<loaded, users, req, id, data, result, file0>>

\* fs.writeFile cannot open the file (no permission): createUser throws to
\* the catch of its tool.
WriteFails(c) ==
    /\ pc[c] = "open"
    /\ Answer(c, OnStoreException(req[c].tool))
    /\ UNCHANGED <<file, loaded, users, req, id, data, file0>>

\* fs.writeFile has opened the file and cannot write (no space): the file
\* stays as it is, and createUser throws to the catch of its tool.
WriteBreaks(c) ==
    /\ pc[c] = "write"
    /\ Answer(c, OnStoreException(req[c].tool))
    /\ UNCHANGED <<file, loaded, users, req, id, data, file0>>

\* fs.writeFile writes the text and settles; createUser returns its id and
\* the tool answers with it.
WriteDone(c) ==
    /\ pc[c] = "write"
    /\ file' = Overwrite(file, data[c])
    /\ Answer(c, Created(id[c]))
    /\ UNCHANGED <<loaded, users, req, id, data, file0>>

Next ==
    \E c \in Calls :
        \/ \E params \in ValidParams : CallCreateUser(c, params)
        \/ CallCreateRandomUser(c)
        \/ ReadUsers(c)
        \/ \E userId \in UserIdStrings : ReadUserDetails(c, userId)
        \/ \E res \in Generated : SamplingResult(c, res)
        \/ ImportFails(c)
        \/ CreateUserAppend(c)
        \/ UsersRead(c)
        \/ UserDetailsRead(c)
        \/ WriteOpen(c)
        \/ WriteFails(c)
        \/ WriteBreaks(c)
        \/ WriteDone(c)

Spec == Init /\ [][Next]_vars

-----------------------------------------------------------------------------
(* Derived notions used by the properties *)

\* The records a load would yield now.
StoreRecords ==
    IF loaded THEN users
    ELSE IF ParseJSON(file).ok THEN ParseJSON(file).arr ELSE <<>>

\* fs.writeFile has been called and has not settled.
Writing(c) == pc[c] \in {"open", "write"}

Quiet == \A c \in Calls : ~Writing(c)

\* The invocations that answered "User <id> created successfully".
Returned ==
    {c \in Calls : pc[c] = "done" /\ result[c].msg = "created successfully"}

\* The invocations in which createUser has computed its id.
Appended == {c \in Calls : id[c] # 0}

\* Invocation c makes its load of the records in this step.
Loads(c) == pc[c] = "import" /\ pc'[c] # "import"

\* The answers that report a failure.
IsFailure(r) ==
    \/ r.kind = "rejected"
    \/ r.kind = "content" /\ r.msg \in {"Failed to save user",
                                        "Failed to generate user data"}

-----------------------------------------------------------------------------
(* Properties *)

\* C1: the ids createUser computes, and returns, in different invocations
\* are pairwise distinct, however the invocations interleave.
C1_DistinctIds ==
    \A c, d \in Appended : c # d => id[c] # id[d]

\* C1, its case: the second invocation has answered with its id while the
\* first, which arrived before it, is still writing the file.
C1_Witness ==
    /\ 2 \in Returned
    /\ pc[1] = "write"
    /\ id[1] # 0
    /\ result[2].id # id[1]

\* C2: once every invocation has ended, and every createUser among them has
\* answered with its id, the file holds the records it held at the start
\* and one more for each of them.
C2_NoLostRecord ==
    ( /\ ParseJSON(file0).ok
      /\ \A c \in Calls : pc[c] \in {"idle", "done"}
      /\ Appended = Returned )
    => /\ ParseJSON(file).ok
       /\ Len(ParseJSON(file).arr) = Len(ParseJSON(file0).arr) + Cardinality(Returned)

\* C3: the id createUser computes is 1 + the number of records the store
\* holds before it, and greater than every id computed before.
C3_NextId ==
    [][ \A c \in Calls :
          id'[c] # id[c] =>
            /\ id'[c] = Len(StoreRecords) + 1
            /\ \A d \in Calls : id[d] < id'[c] ]_vars

\* C3, its case: two invocations one after the other, the second answering
\* with the id after the first one.
C3_Witness ==
    /\ Returned = {1, 2}
    /\ result[1].id = Len(ParseJSON(file0).arr) + 1
    /\ result[2].id = result[1].id + 1

\* The appended fields of invocation c plus the id it answered with.
FieldsPlusId(c) ==
    [k \in {"id"} \cup DOMAIN req[c].params |->
        IF k = "id" THEN result[c].id ELSE req[c].params[k]]

\* C4: a read of user-details for the id an invocation of createUser has
\* answered with returns the fields of that invocation plus that id.
C4_RoundTrip ==
    [][ \A d \in Calls :
          (req[d].tool = "user-details" /\ Loads(d)) =>
            \A c \in Returned :
                StrictEquals(result[c].id, Number(req[d].userId)) =>
                    result'[d] = Contents(StringifyValue(FieldsPlusId(c))) ]_vars

\* C5: a read of user-details for an id no record of the store has returns
\* the not-found contents.
C5_NotFound ==
    [][ \A d \in Calls :
          ( /\ req[d].tool = "user-details"
            /\ Loads(d)
            /\ ImportFulfils
            /\ \A i \in 1..Len(StoreRecords) :
                  ~StrictEquals(StoreRecords[i].id, Number(req[d].userId)) )
          => result'[d] = Contents(NotFoundText) ]_vars

\* C6: the ids of the records of the store are unique, and the id of each
\* record is the number of records before it plus 1.
C6_IdsUniqueAndPositional ==
    /\ \A i, j \in 1..Len(StoreRecords) :
          i # j => StoreRecords[i].id # StoreRecords[j].id
    /\ \A i \in 1..Len(StoreRecords) : StoreRecords[i].id = i

\* C7: every invocation that ends has returned a response; no exception
\* leaves a handler.
C7_NoEscape ==
    \A c \in Calls : pc[c] = "done" => result[c].kind \in {"content", "contents"}

\* The object has the keys of the create-user input shape.
MatchesShape(o) == UserKeys \subseteq DOMAIN o

\* The result of the request is content that is not text, text that does
\* not parse after the stripping, or JSON of another shape.
BadGeneration(res) ==
    \/ res.type # "text"
    \/ ~ParseJSON(StripFence(res.text)).ok
    \/ ~MatchesShape(ParseJSON(StripFence(res.text)).obj)

\* C8: create-random-user, given such a result, answers with the failure
\* and appends nothing.
C8_BadGenerationFails ==
    \A c \in Calls :
        (req[c].tool = "create-random-user" /\ req[c].gen # NoGen
            /\ BadGeneration(req[c].gen))
        => /\ pc[c] = "done"
           /\ result[c] = Failed("Failed to generate user data")
           /\ id[c] = 0

\* C9: a load made while the file is no JSON, no write being in flight,
\* fails, and the invocation ends there, the file untouched.
C9_CorruptStoreFails ==
    [][ \A c \in Calls :
          (Loads(c) /\ Quiet /\ ~ParseJSON(file).ok) =>
            /\ pc'[c] = "done"
            /\ IsFailure(result'[c])
            /\ file' = file ]_vars

\* C10: a read made while no write is in flight returns what the same read
\* of the records in the file returns.
C10_ReadsFromFile ==
    [][ \A c \in Calls :
          ( /\ req[c].tool \in {"Users", "user-details"}
            /\ Loads(c)
            /\ Quiet
            /\ result'[c].kind = "contents" )
          => /\ ParseJSON(file).ok
             /\ req[c].tool = "Users" =>
                  result'[c] = Contents([t |-> "string",
                                         s |-> StringifyArray(ParseJSON(file).arr)])
             /\ req[c].tool = "user-details" =>
                  result'[c] = UserDetails(ParseJSON(file).arr, req[c].userId) ]_vars

\* C11: at most one append is between its load of the records and the end
\* of its write of the file.
C11_AppendsSerialized ==
    Cardinality({c \in Calls : Writing(c)}) <= 1

\* The result of the request is the text of the user object o between an
\* opening fence with json and a closing fence.
FencedUser(res, o) ==
    /\ res.type = "text"
    /\ DOMAIN o = UserKeys
    /\ DropWs(res.text) = <<FenceJson, Obj(o), Fence>>

\* The fields o plus the id n.
WithId(o, n) ==
    [k \in {"id"} \cup DOMAIN o |-> IF k = "id" THEN n ELSE o[k]]

\* C12: create-random-user, given a valid user object in a code fence, goes
\* on to createUser with that object, appends it with the next id (1 + the
\* number of records before), and answers with that id unless the import
\* or the write of the file throws.
C12_FencedUserAppended ==
    [][ \A c \in Calls : \A o \in ValidParams :
          (req'[c].tool = "create-random-user" /\ FencedUser(req'[c].gen, o)) =>
            /\ (pc[c] = "request" /\ pc'[c] # "request") =>
                  (pc'[c] = "import" /\ req'[c].params = o)
            /\ id'[c] # id[c] =>
                  /\ id'[c] = Len(StoreRecords) + 1
                  /\ StoreRecords' = Append(StoreRecords, WithId(o, id'[c]))
            /\ (pc[c] # "done" /\ pc'[c] = "done") =>
                  \/ result'[c] = Created(id[c])
                  \/ /\ result'[c] = Failed("Failed to generate user data")
                     /\ \/ pc[c] = "import" /\ ~ImportFulfils
                        \/ Writing(c) ]_vars

\* C12, its case: a create-random-user given the fenced object has answered
\* with its id, and the file holds the object under that id.
C12_Witness ==
    \E c \in Returned :
        /\ req[c].tool = "create-random-user"
        /\ FencedUser(req[c].gen, Bo)
        /\ ParseJSON(file).ok
        /\ Len(ParseJSON(file).arr) >= result[c].id
        /\ ParseJSON(file).arr[result[c].id] = WithId(Bo, result[c].id)

\* Invocation c has arrived and has not ended.
InFlight(c) == pc[c] \notin {"idle", "done"}

\* The write of invocation c has failed: its createUser computed an id and
\* its tool answered with the failure.
FailedAppend(c) == id[c] # 0 /\ pc[c] = "done" /\ IsFailure(result[c])

\* C13: when the write of the file fails in a create-user that runs alone,
\* the store holds afterwards the records it held before the call; and the
\* append that comes next after a failed one computes the id of the failed
\* one.
C13_FailedAppendChangesNothing ==
    [][ /\ \A c \in Calls :
              ( /\ req[c].tool = "create-user"
                /\ Writing(c)
                /\ pc'[c] = "done"
                /\ result'[c] = Failed("Failed to save user")
                /\ \A d \in Calls \ {c} : ~InFlight(d) )
              => Len(StoreRecords') = id[c] - 1
        /\ \A c, d \in Calls :
              ( /\ FailedAppend(c)
                /\ Len(StoreRecords) = id[c]
                /\ id'[d] # id[d] )
              => id'[d] = id[c] ]_vars

\* The records of the file, none when the file is no JSON.
FileRecords == IF ParseJSON(file).ok THEN ParseJSON(file).arr ELSE <<>>

\* C14: the record of every append is in the loaded array, at its place
\* and as it was appended; and the record of every append whose write has
\* completed is in the file, at its place and as it was appended, whenever
\* no write is in flight.
C14_AppendOnly ==
    /\ \A c \in Appended :
          /\ Len(users) >= id[c]
          /\ users[id[c]] = NewUser(id[c], req[c].params)
    /\ Quiet =>
          \A c \in Returned :
              /\ Len(FileRecords) >= result[c].id
              /\ FileRecords[result[c].id] = NewUser(result[c].id, req[c].params)

\* C15: in the step in which a tool answers "User <id> created
\* successfully", the write of that invocation has completed and the file
\* holds a record with that id.
C15_SuccessAfterPersistence ==
    [][ \A c \in Calls :
          (pc[c] # "done" /\ pc'[c] = "done" /\ result'[c].msg = "created successfully")
          => /\ pc[c] = "write"
             /\ \E i \in 1..Len(FileRecords') :
                   FileRecords'[i].id = result'[c].id ]_vars

=============================================================================
